---- MODULE Spec2Model ----
(***************************************************************************)
(* A model of the NaNoGenMo 2019 book generator (src/src/main.rs and       *)
(* src/src/glossary.rs): the word interner, the tokenizer, the static      *)
(* glossary, the section-ID allocator, the seven section renderers and the *)
(* assembly loop of generate.  Text is modelled as strings, character by   *)
(* character; a Word is the index of its slot in the arena.                *)
(***************************************************************************)
EXTENDS Integers, Sequences, FiniteSets, TLC

(***************************************************************************)
(* Bounds of the model.                                                    *)
(***************************************************************************)
\* SectionId is u16 in the source (65536 values); the model draws IDs from
\* NumSectionIds values spread over the u16 range.
NumSectionIds == 3
\* generate is called with a word_minimum between 0 and MaxWordMinimum.
MaxWordMinimum == 10

(***************************************************************************)
(* Characters and strings.                                                 *)
(***************************************************************************)
At(s, i) == SubSeq(s, i, i)

UpperCaseLetters == "ABCDEFGHIJKLMNOPQRSTUVWXYZ"
LowerCaseLetters == "abcdefghijklmnopqrstuvwxyz"
UpperSet == {At(UpperCaseLetters, i) : i \in 1..26}
LowerSet == {At(LowerCaseLetters, i) : i \in 1..26}

\* The character class [A-Za-z] of WORD_REGEX.
Letters == UpperSet \cup LowerSet
IsLetter(c) == c \in Letters

ToLowerChar(c) ==
  IF c \in UpperSet
    THEN At(LowerCaseLetters, CHOOSE i \in 1..26 : At(UpperCaseLetters, i) = c)
    ELSE c

ToUpperChar(c) ==
  IF c \in LowerSet
    THEN At(UpperCaseLetters, CHOOSE i \in 1..26 : At(LowerCaseLetters, i) = c)
    ELSE c

\* str::to_lowercase, on the ASCII text the program handles.
RECURSIVE ToLowercase(_)
ToLowercase(s) ==
  IF s = "" THEN "" ELSE ToLowerChar(At(s, 1)) \o ToLowercase(Tail(s))

\* inflections::case::is_lower_case
IsLowerCase(s) == s = ToLowercase(s)

\* A title case that takes the apostrophe for a word separator ("you're"
\* becomes "You Re").
RECURSIVE TitleCaseSplit(_, _)
TitleCaseSplit(s, first) ==
  IF s = "" THEN ""
  ELSE IF At(s, 1) = "'" THEN " " \o TitleCaseSplit(Tail(s), TRUE)
  ELSE (IF first THEN ToUpperChar(At(s, 1)) ELSE At(s, 1))
       \o TitleCaseSplit(Tail(s), FALSE)
ToTitleCaseSplitting(s) == TitleCaseSplit(s, TRUE)

\* inflections::case::to_title_case, on the words the arena holds (lowercase
\* letters and internal apostrophes, no separator): the first letter is
\* capitalised and the rest is kept.
ToTitleCase(s) ==
  IF s = "" THEN "" ELSE ToUpperChar(At(s, 1)) \o Tail(s)

\* format!("{}", n) of an unsigned integer.
Digits == "0123456789"
RECURSIVE ToDecimal(_)
ToDecimal(n) ==
  IF n < 10 THEN At(Digits, n + 1)
  ELSE ToDecimal(n \div 10) \o At(Digits, (n % 10) + 1)

\* The strings parts[lo], ..., parts[hi] joined in order.  The range is
\* split in halves so that long texts are built at logarithmic depth.
RECURSIVE Concat(_, _, _)
Concat(parts, lo, hi) ==
  IF lo > hi THEN ""
  ELSE IF lo = hi THEN parts[lo]
  ELSE LET mid == (lo + hi) \div 2
       IN  Concat(parts, lo, mid) \o Concat(parts, mid + 1, hi)

ConcatAll(parts) == Concat(parts, 1, Len(parts))

\* The elements of the set S of numbers in lo..hi, in ascending order (the
\* iteration order of a BTreeSet, of a BTreeMap's keys, of a sorted Vec).
RECURSIVE Ascending(_, _, _)
Ascending(S, lo, hi) ==
  LET T == {x \in S : lo <= x /\ x <= hi}
  IN  IF T = {} THEN << >>
      ELSE IF lo = hi THEN << lo >>
      ELSE LET mid == (lo + hi) \div 2
           IN  Ascending(T, lo, mid) \o Ascending(T, mid + 1, hi)

(***************************************************************************)
(* The tokenizer: WORD_REGEX = [A-Za-z]+(?:'[A-Za-z]+)*  and find_iter.    *)
(***************************************************************************)
\* The positions of content that lie inside a match: the letters, and the
\* apostrophes between two letters (the group '[A-Za-z]+ only continues a
\* match that ends in a letter and needs a letter after the apostrophe).
InMatch(content) ==
  LET letters == {i \in 1..Len(content) : IsLetter(At(content, i))}
      apostrophes == {i \in 1..Len(content) : At(content, i) = "'"}
  IN  letters \cup
        {i \in apostrophes : (i - 1) \in letters /\ (i + 1) \in letters}

\* WORD_REGEX.find_iter(&content), each match as_str(): the matches are
\* leftmost and greedy, so they are the maximal runs of InMatch positions,
\* in order of position.
FindIter(content) ==
  LET inside == InMatch(content)
      starts == Ascending({i \in inside : (i - 1) \notin inside}, 1, Len(content))
      ends == Ascending({i \in inside : (i + 1) \notin inside}, 1, Len(content))
  IN  [k \in 1..Len(starts) |-> SubSeq(content, starts[k], ends[k])]

(***************************************************************************)
(* Option<T>: None is the empty sequence, Some(x) the sequence of x.       *)
(***************************************************************************)
None == << >>
Some(x) == << x >>
IsSome(o) == o # None
Unwrap(o) == o[1]

(***************************************************************************)
(* WordArena: the interner.  arena is the id_arena of strings (slot k is   *)
(* arena[k + 1]), mapping the HashMap from spelling to Word.               *)
(***************************************************************************)
\* id_arena numbers the arenas of a process from 0; generate makes one.
FirstArenaId == 0

WordArenaNew == [arena |-> << >>, arena_id |-> None, mapping |-> << >>]

\* A get that never looks the spelling up: every call takes a new slot.
WordArenaGetNoLookup(a, word) ==
  LET id == Len(a.arena)
  IN  [id |-> id,
       arena |-> [arena    |-> Append(a.arena, word),
                  arena_id |-> Some(FirstArenaId),
                  mapping  |-> (word :> id) @@ a.mapping]]

\* WordArena::get without its assertion: the Word of a spelling and the
\* interner afterwards.  A spelling seen for the first time gets a new slot.
WordArenaGet(a, word) ==
  IF word \in DOMAIN a.mapping
    THEN [id |-> a.mapping[word], arena |-> a]
    ELSE LET id == Len(a.arena)
         IN  [id |-> id,
              arena |-> [arena    |-> Append(a.arena, word),
                         arena_id |-> Some(FirstArenaId),
                         mapping  |-> a.mapping @@ (word :> id)]]

\* WordArena::name: arena.get(id).unwrap()
WordArenaName(a, id) == a.arena[id + 1]

\* A pick_random that returns a word the arena does not hold.
PickRandomNotInterned(a, idx) == "lorem"

\* WordArena::pick_random with the drawn index idx; it needs arena_id to be
\* Some and idx < arena.len().
CanPickRandom(a) == IsSome(a.arena_id) /\ Len(a.arena) > 0
PickRandom(a, idx) == WordArenaName(a, idx)

(***************************************************************************)
(* AnnotatedString                                                         *)
(***************************************************************************)
\* The fold of AnnotatedString::new over matches[lo..hi], left to right:
\* acc holds the interner and the Words collected so far.
RECURSIVE InternRange(_, _, _, _)
InternRange(acc, matches, lo, hi) ==
  IF lo > hi THEN acc
  ELSE IF lo = hi
    THEN LET r == WordArenaGet(acc.arena, ToLowercase(matches[lo]))
         IN  [arena |-> r.arena, words |-> Append(acc.words, r.id)]
  ELSE LET mid == (lo + hi) \div 2
           left == InternRange(acc, matches, lo, mid)
       IN  \* every match adds one Word; the test makes the left half be
           \* evaluated before the right half starts
           IF Len(left.words) = Len(acc.words) + (mid - lo + 1)
             THEN InternRange(left, matches, mid + 1, hi)
             ELSE left

\* AnnotatedString::new: the annotated string and the interner afterwards.
AnnotatedStringNew(a, content) ==
  LET matches == FindIter(content)
      r == InternRange([arena |-> a, words |-> << >>], matches, 1, Len(matches))
  IN  [str |-> [content |-> content, words |-> r.words], arena |-> r.arena]

\* A word count that counts each distinct word once.
WordCountDistinct(str) ==
  Cardinality({str.words[j] : j \in 1..Len(str.words)})

\* AnnotatedString::word_count
WordCount(str) == Len(str.words)

(***************************************************************************)
(* The static glossary (src/src/glossary.rs).                              *)
(***************************************************************************)
RANDOM_SIGNAL == "::::"

DEFINED ==
  << <<"glossary", "The part of a book with definitions of words used in it.">>,
     <<"words", "See 'word.'">>,
     <<"word", "You're reading them.">>,
     <<"definitions", "See 'definition.'">>,
     <<"definition", "You're reading one.">>,
     <<"book", "You're reading one.">>,
     <<"reading", "You're doing it.">>,
     <<"index", "The part of a book that indicates where words are used.">>,
     <<"indicates", "See 'indicate.'">>,
     <<"indicate", "I'm doing it.">>,
     <<"time", "You're going through it.">>,
     <<"end", "I doubt you'll get there.">>,
     <<"table", "An organized list.">>,
     <<"list", "Nothing, or cons.">>,
     <<"cons", "Something, and a list.">>,
     <<"organized", "I wish I knew.">>,
     <<"contents", "What's in.">>,
     <<"chapter", "The central component of a book.">>,
     <<"central", "<insert in-joke>">>,
     <<"joke", "What's made more confusing by being read out-of-order?">>,
     <<"confusing", "See this book.">>,
     <<"read", "What you're supposed to do to a book, but shouldn't to this one.">>,
     <<"afterword", "Words which are said after.">>,
     <<"figures", "People, numbers, and drawings.">>,
     <<"people", "Dumb, panicky dangerous animals and you know it.">>,
     <<"numbers", "See list of figures for examples.">>,
     <<"drawings", "The best kind of math.">>,
     <<"examples", "See 'example.'">>,
     <<"example", "See 'examples' for an example.">>,
     <<"math", "See 'numbers.'">>,
     <<"you", "You're being it.">>,
     <<"know", "Getting philosophical, are we?">>,
     <<"philosophical", "Silly and distracting in nature.">>,
     <<"fourwords", "Four words, written forwards, comprising forewords.">>,
     <<"fourword", "See 'fourwords.'">>,
     <<"four", "See 'three,' then add one.">>,
     <<"three", "See 'two,' then add one.">>,
     <<"two", "See 'one,' then add one.">>,
     <<"add", "See 'math.'">>,
     <<"one", "Something.">>,
     <<"forwards", "Not left. Not right.">>,
     <<"dedicated", "Given a dedication.">>,
     <<"dedication", "What one would need to write all these definitions.">>,
     <<"nanogenmo", "It's this programming event - maybe you've heard of it?">>,
     <<"programming", "I'm doing it.">>,
     <<"maybe", "Something or nothing.">>,
     <<"exception", "It's supposed to mean something.">>,
     <<"random", RANDOM_SIGNAL>>,
     <<"generated", "See 'generation.'">>,
     <<"generates", "See 'generation.'">>,
     <<"generation", "It's happening.">>,
     <<"known", "See 'know.'">>,
     <<"theory", "See 'math.'">>,
     <<"issue", "See my code for examples.">>,
     <<"code", "You're why it exists.">>,
     <<"think", "We all need to do it.">>,
     <<"look", "You're doing it.">>,
     <<"probability", "See 'math.'">>,
     <<"find", "You've done it!">>,
     <<"suggestion", "We all have them.">> >>

UNDEFINED ==
  << "the", "part", "of", "a", "that", "used", "in", "it", "you're", "doing", "where",
     "see", "with", "them", "i'm", "are", "not", "given", "this", "is", "once", "upon",
     "going", "through", "i", "get", "there", "doubt", "you'll", "an", "wish", "knew",
     "nil", "something", "nothing", "or", "and", "what's", "insert", "component", "here",
     "academia", "made", "more", "by", "being", "what", "out", "supposed", "to", "order",
     "do", "but", "shouldn't", "which", "said", "after", "dumb", "panicky", "best",
     "for", "dangerous", "animals", "kind", "getting", "silly", "distracting", "nature",
     "we", "written", "then", "comprising", "forewords", "left", "right", "all",
     "material", "hello", "following", "would", "need", "write", "these", "lucky",
     "your", "p", "s", "fun", "else", "really", "about", "ids", "was", "shared",
     "precisely", "than", "higher", "id", "section", "sections", "recommended",
     "community", "it's", "event", "you've", "heard", "mean", "when", "trust",
     "accuracy", "happening", "been", "just", "could", "entire", "purpose", "did",
     "chose", "happened", "my", "exists", "why", "submitted", "isn't", "low", "pretty",
     "rs", "main", "line", "wait", "can", "on", "appear", "message", "source", "book's",
     "into", "go", "have", "done", "playing", "they're", "character", "narrator",
     "reconcyl", "author", "text", "reader", "dear" >>

\* The first loop of get_global_glossary over defined[lo..hi]: each term is
\* interned (get asserts that it is in lower case), then its definition is
\* annotated, then the entry is inserted; st.ok turns FALSE at a failed
\* assertion, which ends the construction there.
RECURSIVE DefinedRange(_, _, _, _)
DefinedRange(st, defined, lo, hi) ==
  IF lo > hi THEN st
  ELSE IF lo = hi
    THEN IF ~st.ok THEN st
         ELSE IF ~IsLowerCase(defined[lo][1]) THEN [st EXCEPT !.ok = FALSE]
         ELSE LET t == WordArenaGet(st.arena, defined[lo][1])
                  d == AnnotatedStringNew(t.arena, defined[lo][2])
              IN  [arena    |-> d.arena,
                   glossary |-> (t.id :> Some(d.str)) @@ st.glossary,
                   ok       |-> t.id \notin DOMAIN st.glossary]
  ELSE LET mid == (lo + hi) \div 2
           left == DefinedRange(st, defined, lo, mid)
       IN  IF left.ok \in BOOLEAN
             THEN DefinedRange(left, defined, mid + 1, hi)
             ELSE left

\* The second loop, over undefined[lo..hi].
RECURSIVE UndefinedRange(_, _, _, _)
UndefinedRange(st, undefined, lo, hi) ==
  IF lo > hi THEN st
  ELSE IF lo = hi
    THEN IF ~st.ok THEN st
         ELSE IF ~IsLowerCase(undefined[lo]) THEN [st EXCEPT !.ok = FALSE]
         ELSE LET t == WordArenaGet(st.arena, undefined[lo])
              IN  [arena    |-> t.arena,
                   glossary |-> (t.id :> None) @@ st.glossary,
                   ok       |-> t.id \notin DOMAIN st.glossary]
  ELSE LET mid == (lo + hi) \div 2
           left == UndefinedRange(st, undefined, lo, mid)
       IN  IF left.ok \in BOOLEAN
             THEN UndefinedRange(left, undefined, mid + 1, hi)
             ELSE left

\* A closure check that finds nothing.
UnclosedNever(g) == {}

\* The words of the definitions of g that are not keys of g.
Unclosed(g) ==
  {w \in UNION {{g[k][1].words[j] : j \in 1..Len(g[k][1].words)} :
                  k \in {k \in DOMAIN g : IsSome(g[k])}} :
     w \notin DOMAIN g}

\* get_global_glossary on the lists defined and undefined: inserted is
\* FALSE when an assertion of the two loops panics, ok is FALSE when an
\* assertion or the closure check panics.
GetGlobalGlossary(a, defined, undefined) ==
  LET s0 == [arena |-> a, glossary |-> << >>, ok |-> TRUE]
      s1 == DefinedRange(s0, defined, 1, Len(defined))
      s2 == UndefinedRange(s1, undefined, 1, Len(undefined))
  IN  [arena    |-> s2.arena,
       glossary |-> s2.glossary,
       inserted |-> s2.ok,
       ok       |-> s2.ok /\ Unclosed(s2.glossary) = {}]

(***************************************************************************)
(* Section IDs and IdGenerator.                                            *)
(***************************************************************************)
\* SectionId = u16
MaxSectionId == 65535

\* The values rand::random() can return in the model.
SectionIds ==
  {(k * MaxSectionId) \div (NumSectionIds - 1) : k \in 0..(NumSectionIds - 1)}

\* A gen that returns its draw without looking at the used set.
GenAcceptsAny(used, id) == TRUE

\* One turn of the loop of IdGenerator::gen with the drawn value id: the
\* value is returned when the used set does not contain it ...
GenAccepts(used, id) == id \notin used
\* A gen that returns the ID without recording it.
GenInsertForgets(used, id) == used

\* ... and it is inserted into the used set before it is returned.
GenInsert(used, id) == used \cup {id}

(***************************************************************************)
(* Sections and the renderers.  A renderer is given the ID that with_id    *)
(* drew and the random values it draws itself, and yields the text.        *)
(***************************************************************************)
SectionTypes ==
  {"Dedication", "Fourword", "TableOfContents", "Chapter1", "Glossary",
   "ListOfFigures", "Index", "Afterword"}

\* The label render_table_of_contents prints for a section type.
TypeLabel(type_) ==
  CASE type_ = "Dedication"      -> "Dedication"
    [] type_ = "Fourword"        -> "Fourword"
    [] type_ = "TableOfContents" -> "Table of Contents"
    [] type_ = "Chapter1"        -> "Chapter 1"
    [] type_ = "Glossary"        -> "Glossary"
    [] type_ = "ListOfFigures"   -> "List of Figures"
    [] type_ = "Index"           -> "Index"
    [] type_ = "Afterword"       -> "Afterword"

\* Section::with_id after gen: the closure's text is annotated (which may
\* intern words) and the section is built.
SectionWithId(a, id, type_, rendered) ==
  LET r == AnnotatedStringNew(a, rendered)
  IN  [section |-> [content |-> r.str, id |-> id, type_ |-> type_],
       arena   |-> r.arena]

\* Section::word_count
SectionWordCount(section) == WordCount(section.content)

\* A Chapter 1 with a word that the glossary does not list.
RenderChapter1Prologue(id) ==
  "## Chapter 1 (#" \o ToDecimal(id) \o ")\n\n\\<Insert prologue here>"

RenderChapter1(id) ==
  "## Chapter 1 (#" \o ToDecimal(id) \o ")\n\n\\<Insert academia joke here>"

RenderDedication(id) ==
  "## Dedication (#" \o ToDecimal(id) \o ")\n\n"
  \o "All material following this dedication is dedicated to the NaNoGenMo 2019 community, "
  \o "with the exception of sections with an ID higher than this one (#"
  \o ToDecimal(id) \o ")."

\* One line of the table of contents.
ContentsEntry(section) ==
  "\n- **" \o TypeLabel(section.type_) \o "** (#" \o ToDecimal(section.id) \o ")"

\* A table of contents that lists the registry from back to front.
RenderTableOfContentsReversed(id, sections) ==
  "## Table of Contents (#" \o ToDecimal(id) \o ")\n"
  \o ConcatAll([k \in 1..Len(sections) |->
                  ContentsEntry(sections[Len(sections) + 1 - k])])

RenderTableOfContents(id, sections) ==
  "## Table of Contents (#" \o ToDecimal(id) \o ")\n"
  \o ConcatAll([k \in 1..Len(sections) |-> ContentsEntry(sections[k])])

\* picks: the four indices drawn by pick_random, in order.
RenderFourword(id, a, picks) ==
  "## Fourword (#" \o ToDecimal(id) \o ")\n\n"
  \o ToTitleCase(PickRandom(a, picks[1])) \o " "
  \o PickRandom(a, picks[2]) \o " "
  \o PickRandom(a, picks[3]) \o " "
  \o PickRandom(a, picks[4]) \o "."

\* The Words of all sections, as a set.
AllWords(sections) ==
  UNION {{sections[k].content.words[j] : j \in 1..Len(sections[k].content.words)} :
           k \in 1..Len(sections)}

\* words.sort(); words.dedup() on the Words of the sections.
SortedWords(a, sections) == Ascending(AllWords(sections), 0, Len(a.arena) - 1)

\* The words render_glossary would draw a random word for.
SentinelWords(glossary, sections) ==
  {w \in AllWords(sections) \cap DOMAIN glossary :
     IsSome(glossary[w]) /\ Unwrap(glossary[w]).content = RANDOM_SIGNAL}

\* The words of the sections that are no key of the glossary: render_glossary
\* panics on the first of them.
MissingWords(glossary, sections) == AllWords(sections) \ DOMAIN glossary

\* A bullet of render_glossary that writes every definition as it is stored.
GlossaryEntryLiteral(a, glossary, word, picks) ==
  IF IsSome(glossary[word])
    THEN "\n- **" \o WordArenaName(a, word) \o "** - " \o Unwrap(glossary[word]).content
    ELSE ""

\* A bullet of render_glossary that is written for every word, defined or not.
GlossaryEntryAlways(a, glossary, word, picks) ==
  "\n- **" \o WordArenaName(a, word) \o "** - "
  \o (IF ~IsSome(glossary[word]) THEN ""
      ELSE IF Unwrap(glossary[word]).content = RANDOM_SIGNAL
        THEN "See '" \o PickRandom(a, picks[word]) \o ".'"
        ELSE Unwrap(glossary[word]).content)

\* The bullet of render_glossary for one word (nothing for a word whose
\* entry is None); picks[word] is the index pick_random draws for it.
GlossaryEntry(a, glossary, word, picks) ==
  IF IsSome(glossary[word])
    THEN "\n- **" \o WordArenaName(a, word) \o "** - "
         \o (IF Unwrap(glossary[word]).content = RANDOM_SIGNAL
               THEN "See '" \o PickRandom(a, picks[word]) \o ".'"
               ELSE Unwrap(glossary[word]).content)
    ELSE ""

RenderGlossary(id, a, glossary, sections, picks) ==
  LET words == SortedWords(a, sections)
  IN  "## Glossary (#" \o ToDecimal(id) \o ")\n"
      \o ConcatAll([k \in 1..Len(words) |->
                      GlossaryEntry(a, glossary, words[k], picks)])

\* format!("{:.3}", x) for a sample x = -milli/1000 or milli/1000.
FormatSample(sample) ==
  (IF sample.neg THEN "-" ELSE "")
  \o ToDecimal(sample.milli \div 1000) \o "."
  \o At(Digits, ((sample.milli \div 100) % 10) + 1)
  \o At(Digits, ((sample.milli \div 10) % 10) + 1)
  \o At(Digits, (sample.milli % 10) + 1)

FigureEntry(figure) ==
  "\n- " \o FormatSample(figure.sample) \o (IF figure.star THEN " (*)" ELSE "")

\* figures: the samples drawn and whether each got the footnote marker.
RenderListOfFigures(id, random_section_id, figures) ==
  "## List of Figures (#" \o ToDecimal(id) \o ")\n"
  \o ConcatAll([k \in 1..Len(figures) |-> FigureEntry(figures[k])])
  \o (IF \E k \in 1..Len(figures) : figures[k].star
        THEN "\n\n(*) The accuracy of these numbers is not known. "
             \o "It is recommended not to trust them when reading section #"
             \o ToDecimal(random_section_id) \o "."
        ELSE "")

\* A word_uses that keeps, for each Word, only the last section it occurs in.
WordUsesLast(sections) ==
  [w \in AllWords(sections) |->
     {sections[CHOOSE k \in 1..Len(sections) :
        /\ \E j \in 1..Len(sections[k].content.words) :
              sections[k].content.words[j] = w
        /\ \A l \in (k + 1)..Len(sections) :
              \A j \in 1..Len(sections[l].content.words) :
                sections[l].content.words[j] # w].id}]

\* word_uses of render_index: each Word of the sections with the set of the
\* IDs of the sections it occurs in.
WordUses(sections) ==
  [w \in AllWords(sections) |->
     {sections[k].id : k \in {k \in 1..Len(sections) :
        \E j \in 1..Len(sections[k].content.words) :
           sections[k].content.words[j] = w}}]

\* The IDs of one index bullet: ascending, separated by ", ".
IndexIds(use_set) ==
  LET ids == Ascending(use_set, 0, MaxSectionId)
  IN  ConcatAll([i \in 1..Len(ids) |->
                   (IF i # 1 THEN ", " ELSE "") \o "#" \o ToDecimal(ids[i])])

IndexEntry(a, word, use_set) ==
  "\n- **" \o WordArenaName(a, word) \o "** - " \o IndexIds(use_set)

RenderIndex(id, a, sections) ==
  LET word_uses == WordUses(sections)
      words == Ascending(DOMAIN word_uses, 0, Len(a.arena) - 1)
  IN  "## Index (#" \o ToDecimal(id) \o ")\n"
      \o ConcatAll([k \in 1..Len(words) |->
                      IndexEntry(a, words[k], word_uses[words[k]])])

\* The text of the meta afterword.  The source puts main.rs between two
\* backquotes, a character a TLA+ string cannot hold: they are written as
\* double quotes here (like the backquote, no part of a word).
MetaMessage ==
  "Hello, dear reader! I'm the author of the text you're reading. Not @Reconcyl, but the narrator. The character "
  \o "they're playing.\n\n"
  \o "I have a suggestion for you. Go into this book's source code and find the part that generates this message. "
  \o "What's the probability it would appear? Go on, look. I can wait. It's in \"main.rs\", line 268.\n\n"
  \o "It's pretty low, isn't it? Do you think the one I submitted to the NaNoGenMo issue just happened to have it? "
  \o "Or do you think Reconcyl chose one that did on purpose?\n\n"
  \o "This entire book *could*, in theory, have been generated by precisely the code I shared. But *was* it?\n\n"
  \o "Are the section IDs I used *really* random? What about the fourwords? Or is there something else going on?\n\n"
  \o "Have fun.\n\n"

\* The postscript of the meta message: lucky[i] is the i-th ID returned by
\* random_section_id, Len(lucky) the quantity drawn.
LuckyNumbers(lucky) ==
  ConcatAll([i \in 1..Len(lucky) |->
    (IF i = 1 THEN "P.S. your lucky section numbers are "
     ELSE IF i = Len(lucky) THEN ", and "
     ELSE ", ")
    \o "#" \o ToDecimal(lucky[i])])

\* meta: the 1-in-10,000,000 draw; pick: the index pick_random draws.
RenderAfterword(id, a, meta, lucky, pick) ==
  "## Afterword (#" \o ToDecimal(id) \o ")\n\n"
  \o (IF meta THEN MetaMessage \o LuckyNumbers(lucky) \o "."
              ELSE ToTitleCase(PickRandom(a, pick)))

\* A random_section_id that returns a number which need not be the ID of a
\* section: the ID at idx plus one (modulo 2^16).
RandomSectionIdOffByOne(sections, idx) ==
  (sections[idx + 1].id + 1) % (MaxSectionId + 1)

\* generate's random_section_id with the drawn index idx.
RandomSectionId(sections, idx) == sections[idx + 1].id

RECURSIVE SumWordCounts(_, _)
SumWordCounts(sections, k) ==
  IF k = 0 THEN 0
  ELSE SumWordCounts(sections, k - 1) + SectionWordCount(sections[k])

\* sections.iter().map(Section::word_count).sum()
TotalWords(sections) == SumWordCounts(sections, Len(sections))

\* A push_front that pushes at the back.
PushFrontAtBack(sections, section) == Append(sections, section)

PushFront(sections, section) == << section >> \o sections
\* A push_back that pushes at the front.
PushBackAtFront(sections, section) == << section >> \o sections

PushBack(sections, section) == Append(sections, section)

(***************************************************************************)
(* The random draws the model explores.                                    *)
(***************************************************************************)
\* pick_random draws an index below arena.len(); the model draws the
\* indices of these words: the sentinel word and a word with an apostrophe.
PickedWords == {"random", "you're"}
PickChoices(a) ==
  LET named == {idx \in 0..(Len(a.arena) - 1) : WordArenaName(a, idx) \in PickedWords}
  IN  IF named # {} THEN named
      ELSE \* an arena without these words: the first and the last index
           {idx \in 0..(Len(a.arena) - 1) : idx = 0 \/ idx = Len(a.arena) - 1}

\* render_list_of_figures draws 5 to 29 figures (gen_range(5, 30)), each a
\* normal sample that gets the footnote marker with probability 1/10.  The
\* model draws the least quantity, these samples, and marks no figure or
\* the first one.
MinFigures == 5
FigureSamples ==
  << [neg |-> TRUE,  milli |-> 1234],  [neg |-> FALSE, milli |-> 20],
     [neg |-> FALSE, milli |-> 3000],  [neg |-> TRUE,  milli |-> 0],
     [neg |-> FALSE, milli |-> 12500] >>
FigureDraws ==
  {[k \in 1..MinFigures |-> [sample |-> FigureSamples[k], star |-> (k = 1 /\ note)]] :
     note \in BOOLEAN}

\* The meta afterword draws 3 to 15 lucky section numbers (gen_range(3, 16)),
\* each by random_section_id.  The model draws the least quantity, and the
\* indices start, start + step, start + 2 * step (modulo the length) for a
\* step of 0 or 1.
MinLucky == 3
LuckyDraws(sections) ==
  {[i \in 1..MinLucky |->
      RandomSectionId(sections, (start + (i - 1) * step) % Len(sections))] :
     start \in 0..(Len(sections) - 1), step \in {0, 1}}

(***************************************************************************)
(* The state of generate.                                                  *)
(***************************************************************************)
VARIABLES
  pc,            \* where generate is: "start", "chapter1", "loop", "done",
                 \* or "panicked" after a panic
  word_minimum,  \* the argument of generate
  arena,         \* the WordArena
  glossary,      \* the global glossary: Word -> Option<AnnotatedString>
  sections,      \* the VecDeque of sections, front first
  idg,           \* the used set of the IdGenerator
  diagnostic     \* the message of the panic, if any

vars == << pc, word_minimum, arena, glossary, sections, idg, diagnostic >>

Init ==
  /\ pc = "start"
  /\ word_minimum \in 0..MaxWordMinimum
  /\ arena = WordArenaNew
  /\ glossary = << >>
  /\ sections = << >>
  /\ idg = {}
  /\ diagnostic = ""

NotDefined(a, word) == "'" \o WordArenaName(a, word) \o "' is not defined"

\* let glossary = glossary::get_global_glossary(&mut arena); with the lists
\* defined and undefined in the place of DEFINED and UNDEFINED.  The closure
\* loop walks a HashMap: which unclosed word its panic names is not fixed.
BuildGlossaryFrom(defined, undefined) ==
  /\ pc = "start"
  /\ LET r == GetGlobalGlossary(arena, defined, undefined)
     IN  /\ arena' = r.arena
         /\ glossary' = r.glossary
         /\ IF r.ok
              THEN pc' = "chapter1" /\ diagnostic' = ""
              ELSE /\ pc' = "panicked"
                   /\ IF r.inserted
                        THEN \E w \in Unclosed(r.glossary) :
                               diagnostic' = NotDefined(r.arena, w)
                        ELSE diagnostic' = "assertion failed"
  /\ UNCHANGED << word_minimum, sections, idg >>

BuildGlossary == BuildGlossaryFrom(DEFINED, UNDEFINED)

\* sections.push_back(render_chapter_1(&mut idg, &mut arena));
Chapter1 ==
  /\ pc = "chapter1"
  /\ \E id \in SectionIds :
       /\ GenAccepts(idg, id)
       /\ LET r == SectionWithId(arena, id, "Chapter1", RenderChapter1(id))
          IN  /\ sections' = PushBack(sections, r.section)
              /\ arena' = r.arena
       /\ idg' = GenInsert(idg, id)
  /\ pc' = "loop"
  /\ UNCHANGED << word_minimum, glossary, diagnostic >>

\* The loop condition of generate.
LoopCondition == TotalWords(sections) < word_minimum

\* A turn of the loop of IdGenerator::gen whose draw is already used: the
\* draw is dropped and gen draws again.
GenRedraw ==
  /\ pc = "loop"
  /\ LoopCondition
  /\ \E id \in SectionIds : ~GenAccepts(idg, id)
  /\ UNCHANGED vars

\* The end of a loop turn that rendered text as a section of type_ with the
\* ID id: the section is pushed at the front or at the back.
Insert(id, type_, rendered, front) ==
  LET r == SectionWithId(arena, id, type_, rendered)
  IN  /\ sections' = IF front THEN PushFront(sections, r.section)
                              ELSE PushBack(sections, r.section)
      /\ arena' = r.arena
      /\ idg' = GenInsert(idg, id)
      /\ pc' = "loop"
      /\ UNCHANGED << word_minimum, glossary, diagnostic >>

\* A failure that is recorded while the loop goes on.
PanicContinues(id, message) ==
  /\ pc' = "loop"
  /\ diagnostic' = message
  /\ idg' = GenInsert(idg, id)
  /\ UNCHANGED << word_minimum, arena, glossary, sections >>

\* A panic inside a renderer, after gen returned id.
Panic(id, message) ==
  /\ pc' = "panicked"
  /\ diagnostic' = message
  /\ idg' = GenInsert(idg, id)
  /\ UNCHANGED << word_minimum, arena, glossary, sections >>

\* 0 => render_dedication, push_front
Dedication ==
  /\ pc = "loop"
  /\ LoopCondition
  /\ \E id \in SectionIds :
       /\ GenAccepts(idg, id)
       /\ Insert(id, "Dedication", RenderDedication(id), TRUE)

\* 1 => render_fourword, push_front
Fourword ==
  /\ pc = "loop"
  /\ LoopCondition
  /\ \E id \in SectionIds :
       /\ GenAccepts(idg, id)
       /\ IF CanPickRandom(arena)
            THEN \E picks \in [1..4 -> PickChoices(arena)] :
                   Insert(id, "Fourword", RenderFourword(id, arena, picks), TRUE)
            ELSE Panic(id, "pick_random on an empty arena")

\* 2 => render_table_of_contents, push_front
TableOfContents ==
  /\ pc = "loop"
  /\ LoopCondition
  /\ \E id \in SectionIds :
       /\ GenAccepts(idg, id)
       /\ Insert(id, "TableOfContents", RenderTableOfContents(id, sections), TRUE)

\* 3 => render_glossary, push_back
Glossary ==
  /\ pc = "loop"
  /\ LoopCondition
  /\ \E id \in SectionIds :
       /\ GenAccepts(idg, id)
       /\ IF MissingWords(glossary, sections) # {}
            THEN Panic(id, NotDefined(arena,
                   CHOOSE w \in MissingWords(glossary, sections) :
                     \A v \in MissingWords(glossary, sections) : w <= v))
            ELSE \E picks \in [SentinelWords(glossary, sections) -> PickChoices(arena)] :
                   Insert(id, "Glossary",
                          RenderGlossary(id, arena, glossary, sections, picks), FALSE)

\* 4 => render_list_of_figures, push_back
ListOfFigures ==
  /\ pc = "loop"
  /\ LoopCondition
  /\ \E id \in SectionIds :
       /\ GenAccepts(idg, id)
       /\ \E idx \in 0..(Len(sections) - 1), figures \in FigureDraws :
            Insert(id, "ListOfFigures",
                   RenderListOfFigures(id, RandomSectionId(sections, idx), figures),
                   FALSE)

\* 5 => render_index, push_back
Index ==
  /\ pc = "loop"
  /\ LoopCondition
  /\ \E id \in SectionIds :
       /\ GenAccepts(idg, id)
       /\ Insert(id, "Index", RenderIndex(id, arena, sections), FALSE)

\* 6 => render_afterword, push_back
Afterword ==
  /\ pc = "loop"
  /\ LoopCondition
  /\ \E id \in SectionIds :
       /\ GenAccepts(idg, id)
       /\ \E meta \in BOOLEAN :
            IF meta
              THEN \E lucky \in LuckyDraws(sections) :
                     Insert(id, "Afterword",
                            RenderAfterword(id, arena, TRUE, lucky, 0), FALSE)
              ELSE IF CanPickRandom(arena)
                THEN \E pick \in PickChoices(arena) :
                       Insert(id, "Afterword",
                              RenderAfterword(id, arena, FALSE, << >>, pick), FALSE)
                ELSE Panic(id, "pick_random on an empty arena")

\* The loop condition fails: generate returns sections.
Return ==
  /\ pc = "loop"
  /\ ~LoopCondition
  /\ pc' = "done"
  /\ UNCHANGED << word_minimum, arena, glossary, sections, idg, diagnostic >>

Next ==
  \/ BuildGlossary
  \/ Chapter1
  \/ GenRedraw
  \/ Dedication
  \/ Fourword
  \/ TableOfContents
  \/ Glossary
  \/ ListOfFigures
  \/ Index
  \/ Afterword
  \/ Return

Spec == Init /\ [][Next]_vars

(***************************************************************************)
(* generate over other glossaries: get_global_glossary is run on the lists *)
(* of glossary.rs and on short lists (closed or not, with or without a     *)
(* term entered twice, with or without the words of Chapter 1), and the    *)
(* loop draws the Glossary kind at every turn.  The lists with a sentinel  *)
(* entry hold the words pick_random is drawn on.                           *)
(***************************************************************************)
SmallDefined ==
  { << >>,
    << << "word", "See 'words.'" >>, << "words", "A word." >> >>,
    << << "chapter", RANDOM_SIGNAL >> >>,
    << << "chapter", "Here, a joke." >>, << "glossary", "See 'chapter.'" >> >> }

SmallUndefined ==
  { << >>,
    << "see", "a" >>,
    << "see", "a", "words" >>,
    << "insert", "academia", "joke", "here", "glossary", "see", "random", "you're" >>,
    << "insert", "academia", "joke", "here", "see", "a" >> }

GlossaryInputs ==
  {[defined |-> DEFINED, undefined |-> UNDEFINED]}
  \cup {[defined |-> d, undefined |-> u] : d \in SmallDefined, u \in SmallUndefined}

BuildAnyGlossary ==
  \E input \in GlossaryInputs : BuildGlossaryFrom(input.defined, input.undefined)

GlossaryNext ==
  \/ BuildAnyGlossary
  \/ Chapter1
  \/ GenRedraw
  \/ Glossary
  \/ Return

GlossarySpec == Init /\ [][GlossaryNext]_vars

(***************************************************************************)
(* The interner on its own: sections built by Section::with_id in a fresh  *)
(* arena from texts of one word, in every order and letter case.           *)
(***************************************************************************)
Spellings == {"cat", "Cat", "CAT", "dog", "Dog", "you're", "You're"}

InternInit ==
  /\ pc = "intern"
  /\ word_minimum = 0
  /\ arena = WordArenaNew
  /\ glossary = << >>
  /\ sections = << >>
  /\ idg = {}
  /\ diagnostic = ""

\* gen, then Section::with_id on a text of one word, then push_back.
WithId ==
  /\ pc = "intern"
  /\ \E id \in SectionIds, rendered \in Spellings :
       /\ GenAccepts(idg, id)
       /\ LET r == SectionWithId(arena, id, "Chapter1", rendered)
          IN  /\ sections' = PushBack(sections, r.section)
              /\ arena' = r.arena
       /\ idg' = GenInsert(idg, id)
  /\ UNCHANGED << pc, word_minimum, glossary, diagnostic >>

InternNext == WithId

InternSpec == InternInit /\ [][InternNext]_vars

(***************************************************************************)
(* IdGenerator::gen on its own: a caller that goes on calling              *)
(* Section::with_id on texts of one word.  with_id first calls gen, which  *)
(* draws until the draw is not in the used set, then builds the section    *)
(* with the ID gen returned.  A call of gen that can return does (weak     *)
(* fairness: a draw is uniform over the u16 values).                       *)
(***************************************************************************)
\* let id = idg.gen(); gen returns.
GenReturns ==
  /\ pc = "intern"
  /\ \E id \in SectionIds :
       /\ GenAccepts(idg, id)
       /\ idg' = GenInsert(idg, id)
  /\ pc' = "allocated"
  /\ UNCHANGED << word_minimum, arena, glossary, sections, diagnostic >>

\* A turn of the loop of gen whose draw is already used.
GenDrawsAgain ==
  /\ pc = "intern"
  /\ \E id \in SectionIds : ~GenAccepts(idg, id)
  /\ UNCHANGED vars

\* Self { content: f(id), id, type_ } with the ID gen returned, the one used
\* ID that no section has yet; the caller pushes the section at the back.
BuildSection ==
  /\ pc = "allocated"
  /\ \E id \in idg, rendered \in Spellings :
       /\ \A k \in 1..Len(sections) : sections[k].id # id
       /\ LET r == SectionWithId(arena, id, "Chapter1", rendered)
          IN  /\ sections' = PushBack(sections, r.section)
              /\ arena' = r.arena
  /\ pc' = "intern"
  /\ UNCHANGED << word_minimum, glossary, idg, diagnostic >>

AllocNext == GenReturns \/ GenDrawsAgain \/ BuildSection

AllocSpec == InternInit /\ [][AllocNext]_vars /\ WF_vars(GenReturns)

(***************************************************************************)
(* Reading rendered text back: the section IDs a text mentions.            *)
(***************************************************************************)
DigitSet == {At(Digits, i) : i \in 1..10}

RECURSIVE ParseDecimal(_)
ParseDecimal(s) ==
  IF s = "" THEN 0
  ELSE 10 * ParseDecimal(SubSeq(s, 1, Len(s) - 1))
       + ((CHOOSE i \in 1..10 : At(Digits, i) = At(s, Len(s))) - 1)

\* The numbers written as #<digits> in text, in order of position.
IdsIn(text) ==
  LET digits == {i \in 1..Len(text) : At(text, i) \in DigitSet}
      hashes == Ascending({i \in 1..Len(text) :
                             At(text, i) = "#" /\ (i + 1) \in digits},
                          1, Len(text))
      last(h) == CHOOSE e \in (h + 1)..Len(text) :
                   /\ \A k \in (h + 1)..e : k \in digits
                   /\ (e + 1) \notin digits
  IN  [k \in 1..Len(hashes) |->
         ParseDecimal(SubSeq(text, hashes[k] + 1, last(hashes[k])))]

MentionedIds(text) == {IdsIn(text)[k] : k \in 1..Len(IdsIn(text))}

RegisteredIds == {sections[k].id : k \in 1..Len(sections)}

(***************************************************************************)
(* C1: the sections of the registry have pairwise distinct IDs, and every  *)
(* ID gen returned is in the used set of the generator.                    *)
(***************************************************************************)
C1_DistinctSectionIds ==
  /\ \A i, j \in 1..Len(sections) :
       i # j => sections[i].id # sections[j].id
  /\ RegisteredIds \subseteq idg

\* Three sections are registered.
C1_Witness == pc = "loop" /\ Len(sections) = 3

(***************************************************************************)
(* C2: every section ID mentioned in the content of a registered section   *)
(* (its heading, a table of contents, an index, the disclaimer of a list   *)
(* of figures, the meta afterword) is the ID of a registered section.      *)
(***************************************************************************)
C2_NoDanglingReference ==
  \A k \in 1..Len(sections) :
    /\ sections[k].id \in MentionedIds(sections[k].content.content)
    /\ MentionedIds(sections[k].content.content) \subseteq RegisteredIds

\* A list of figures with its disclaimer, or a meta afterword, is registered:
\* it mentions the ID of another section.
C2_Witness ==
  /\ pc = "loop"
  /\ \E k \in 1..Len(sections) :
       /\ sections[k].type_ \in {"ListOfFigures", "Afterword"}
       /\ MentionedIds(sections[k].content.content) # {sections[k].id}

(***************************************************************************)
(* C3: render_glossary never panics on a missing key: generate never       *)
(* panics, and every word of every registered section is a key of the      *)
(* global glossary.                                                        *)
(***************************************************************************)
C3_WordsAreGlossaryKeys ==
  /\ pc # "panicked"
  /\ pc \in {"loop", "done"} => AllWords(sections) \subseteq DOMAIN glossary

\* A Glossary section was rendered over a registry holding a title-cased
\* random word with an apostrophe.
C3_Witness ==
  /\ pc = "loop"
  /\ \E k, l \in 1..Len(sections) :
       /\ k < l
       /\ sections[k].type_ = "Afterword"
       /\ arena.mapping["you're"] \in
            {sections[k].content.words[j] : j \in 1..Len(sections[k].content.words)}
       /\ sections[l].type_ = "Glossary"

(***************************************************************************)
(* C4: for every word_minimum the loop of generate ends: every turn        *)
(* finishes, its ID allocation included, so the total goes on growing      *)
(* until it reaches word_minimum.  A turn begins whenever the loop         *)
(* condition holds, and its first step is IdGenerator::gen, which returns  *)
(* only an ID that is not in use: whenever a turn begins, such an ID must  *)
(* exist.  Where none exists the only step left is the redraw, which       *)
(* changes nothing, and generate never returns.                            *)
(***************************************************************************)
C4_TurnCanFinish ==
  (pc = "loop" /\ LoopCondition) => \E id \in SectionIds : GenAccepts(idg, id)

(***************************************************************************)
(* C5: a section is inserted exactly when the total word count (the sum of *)
(* the lengths of the word sequences, duplicates counted) is below         *)
(* word_minimum: generate(0) returns the Chapter-1 section alone, and      *)
(* generate returns with a total >= word_minimum, reached by an insertion  *)
(* made while the total was below it.                                      *)
(***************************************************************************)
RECURSIVE SequenceLengths(_, _)
SequenceLengths(secs, k) ==
  IF k = 0 THEN 0
  ELSE SequenceLengths(secs, k - 1) + Len(secs[k].content.words)

LengthTotal(secs) == SequenceLengths(secs, Len(secs))

C5_Step ==
  /\ (pc = "loop" /\ sections' # sections) => LengthTotal(sections) < word_minimum
  /\ (pc = "loop" /\ LengthTotal(sections) < word_minimum) => pc' # "done"
  /\ pc' = "done" =>
       /\ sections' = sections
       /\ LengthTotal(sections') >= word_minimum
       /\ word_minimum = 0 =>
            Len(sections') = 1 /\ sections'[1].type_ = "Chapter1"

C5_InsertsBelowThreshold == [][C5_Step]_vars

\* generate returned after two insertions, the second of which reached a
\* positive word_minimum.
C5_Witness ==
  /\ pc = "done"
  /\ Len(sections) = 3
  /\ LengthTotal(sections) >= word_minimum
  /\ \E k \in {1, 3} :
       LengthTotal(sections) - Len(sections[k].content.words) < word_minimum

(***************************************************************************)
(* C6: every loop turn adds exactly one section, at the front for          *)
(* Dedication, Fourword and Table of Contents, at the back for Glossary,   *)
(* List of Figures, Index and Afterword; the sections already registered   *)
(* keep their ID, kind, content and relative order, and the registry never *)
(* shrinks.                                                                *)
(***************************************************************************)
FrontTypes == {"Dedication", "Fourword", "TableOfContents"}
BackTypes == {"Glossary", "ListOfFigures", "Index", "Afterword"}

C6_Step ==
  /\ Len(sections') >= Len(sections)
  /\ (pc = "loop" /\ pc' = "loop") =>
       /\ Len(sections') = Len(sections) + 1
       /\ \/ /\ Tail(sections') = sections
             /\ sections'[1].type_ \in FrontTypes
          \/ /\ SubSeq(sections', 1, Len(sections)) = sections
             /\ sections'[Len(sections')].type_ \in BackTypes
  /\ (pc = "loop" /\ pc' # "loop") => sections' = sections

C6_OneSectionPerTurn == [][C6_Step]_vars

\* A section was pushed at the front and another at the back.
C6_Witness ==
  /\ Len(sections) = 3
  /\ sections[1].type_ \in FrontTypes
  /\ sections[2].type_ = "Chapter1"
  /\ sections[3].type_ \in BackTypes

(***************************************************************************)
(* C7: a Table of Contents lists exactly the sections of the registry at   *)
(* the moment it is rendered, one entry (kind label, ID) per section, in   *)
(* registry order; it lists neither itself nor a section inserted later    *)
(* (it is kept as rendered).                                               *)
(***************************************************************************)
\* The positions where pat occurs in text.
Occurrences(text, pat) ==
  {i \in 1..(Len(text) - Len(pat) + 1) : SubSeq(text, i, i + Len(pat) - 1) = pat}

FirstOccurrence(text, pat) ==
  CHOOSE i \in 1..(Len(text) - Len(pat) + 1) :
    /\ SubSeq(text, i, i + Len(pat) - 1) = pat
    /\ \A j \in 1..(i - 1) : SubSeq(text, j, j + Len(pat) - 1) # pat

Before(text, pat) == SubSeq(text, 1, FirstOccurrence(text, pat) - 1)
After(text, pat) == SubSeq(text, FirstOccurrence(text, pat) + Len(pat), Len(text))

\* The bullets of a rendered list: the texts that follow each "\n- **".
Bullets(text) ==
  LET starts == Ascending(Occurrences(text, "\n- **"), 1, Len(text))
  IN  [k \in 1..Len(starts) |->
         SubSeq(text, starts[k] + 5,
                IF k < Len(starts) THEN starts[k + 1] - 1 ELSE Len(text))]

\* The entries of a rendered table of contents: label and IDs of each bullet.
TocEntries(text) ==
  LET bullets == Bullets(text)
  IN  [k \in 1..Len(bullets) |->
         [label |-> Before(bullets[k], "** (#"), ids |-> IdsIn(bullets[k])]]

C7_Step ==
  /\ (/\ pc = "loop"
      /\ Len(sections') = Len(sections) + 1
      /\ Tail(sections') = sections
      /\ sections'[1].type_ = "TableOfContents")
     => TocEntries(sections'[1].content.content) =
          [k \in 1..Len(sections) |->
             [label |-> TypeLabel(sections[k].type_), ids |-> << sections[k].id >>]]
  /\ \A k \in 1..Len(sections) :
       sections[k].type_ = "TableOfContents" =>
         \E l \in 1..Len(sections') : sections'[l] = sections[k]

C7_ContentsSnapshot == [][C7_Step]_vars

\* A section was inserted after a Table of Contents was rendered: the table
\* has fewer entries than there are other sections.
C7_Witness ==
  \E k \in 1..Len(sections) :
    /\ sections[k].type_ = "TableOfContents"
    /\ Len(TocEntries(sections[k].content.content)) < Len(sections) - 1

(***************************************************************************)
(* C8: an Index rendered against a registry has exactly one bullet per     *)
(* distinct word of the registry's sections, in sorted word order (the     *)
(* order of the Word identifiers), and the bullet of a word lists exactly  *)
(* the IDs of the sections whose word sequence contains it, each once, in  *)
(* ascending order.                                                        *)
(***************************************************************************)
\* The entries of a rendered index or glossary: the name of each bullet and
\* the IDs written after it.
BulletEntries(text) ==
  LET bullets == Bullets(text)
  IN  [k \in 1..Len(bullets) |->
         [name |-> Before(bullets[k], "** - "),
          ids |-> IdsIn(After(bullets[k], "** - "))]]

StrictlyAscending(s) == \A k, l \in 1..Len(s) : k < l => s[k] < s[l]

\* The step pushes a section of type_ at the back of the registry.
PushedBack(type_) ==
  /\ pc = "loop"
  /\ Len(sections') = Len(sections) + 1
  /\ SubSeq(sections', 1, Len(sections)) = sections
  /\ sections'[Len(sections')].type_ = type_

SectionsContaining(w) ==
  {sections[j].id : j \in {j \in 1..Len(sections) :
     \E i \in 1..Len(sections[j].content.words) : sections[j].content.words[i] = w}}

C8_Step ==
  PushedBack("Index") =>
    LET entries == BulletEntries(sections'[Len(sections')].content.content)
    IN  /\ \A k \in 1..Len(entries) : entries[k].name \in DOMAIN arena.mapping
        /\ StrictlyAscending([k \in 1..Len(entries) |-> arena.mapping[entries[k].name]])
        /\ {arena.mapping[entries[k].name] : k \in 1..Len(entries)} = AllWords(sections)
        /\ \A k \in 1..Len(entries) :
             /\ StrictlyAscending(entries[k].ids)
             /\ {entries[k].ids[i] : i \in 1..Len(entries[k].ids)} =
                  SectionsContaining(arena.mapping[entries[k].name])

C8_IndexLists == [][C8_Step]_vars

\* An Index rendered against a registry of two sections, with a word that
\* occurs in both and a word that occurs in one.
C8_Witness ==
  /\ Len(sections) = 3
  /\ sections[3].type_ = "Index"
  /\ \E k, l \in 1..Len(BulletEntries(sections[3].content.content)) :
       /\ Len(BulletEntries(sections[3].content.content)[k].ids) = 2
       /\ Len(BulletEntries(sections[3].content.content)[l].ids) = 1

(***************************************************************************)
(* C9: a Glossary rendered against a registry has exactly one bullet for   *)
(* each distinct word that occurs in a section of the registry and has a   *)
(* definition in the global glossary, in sorted word order (the order of   *)
(* the Word identifiers); a word of the registry without definition has no *)
(* bullet, and neither has a glossary word that does not occur in the      *)
(* registry.                                                               *)
(***************************************************************************)
C9_Step ==
  PushedBack("Glossary") =>
    LET entries == BulletEntries(sections'[Len(sections')].content.content)
    IN  /\ \A k \in 1..Len(entries) : entries[k].name \in DOMAIN arena.mapping
        /\ StrictlyAscending([k \in 1..Len(entries) |-> arena.mapping[entries[k].name]])
        /\ {arena.mapping[entries[k].name] : k \in 1..Len(entries)} =
             {w \in AllWords(sections) : w \in DOMAIN glossary /\ IsSome(glossary[w])}

C9_GlossaryLists == [][C9_Step]_vars

\* A Glossary with at least two bullets, rendered against a registry one of
\* whose words has no definition, while a defined word occurs nowhere.
C9_Witness ==
  \E g \in 1..Len(sections) :
    /\ sections[g].type_ = "Glossary"
    /\ g = Len(sections)
    /\ Len(BulletEntries(sections[g].content.content)) >= 2
    /\ \E w \in AllWords(SubSeq(sections, 1, g - 1)) : ~IsSome(glossary[w])
    /\ \E w \in DOMAIN glossary :
         IsSome(glossary[w]) /\ w \notin AllWords(sections)

(***************************************************************************)
(* C10: interning the same spelling twice, in any letter case, returns the *)
(* same Word; the second interning takes no new slot and leaves the        *)
(* interner as it was; the name of the Word of a spelling is the spelling  *)
(* in lower case; and two different spellings never share a Word.          *)
(***************************************************************************)
\* The place of a letter in the alphabet, 0 for any other character.
LetterIndex(c) ==
  IF \E i \in 1..26 : At(UpperCaseLetters, i) = c \/ At(LowerCaseLetters, i) = c
    THEN CHOOSE i \in 1..26 : At(UpperCaseLetters, i) = c \/ At(LowerCaseLetters, i) = c
    ELSE 0

\* u and v are the same spelling but for the case of their letters.
SameSpelling(u, v) ==
  /\ Len(u) = Len(v)
  /\ \A i \in 1..Len(u) :
       IF LetterIndex(At(u, i)) = 0
         THEN At(u, i) = At(v, i)
         ELSE LetterIndex(At(u, i)) = LetterIndex(At(v, i))

\* v is u in lower case.
LowerCaseOf(u, v) ==
  /\ SameSpelling(u, v)
  /\ \A i \in 1..Len(v) : \A j \in 1..26 : At(v, i) # At(UpperCaseLetters, j)

Interned(section) == section.content.words[1]

C10_Step ==
  LET n == Len(sections)
  IN  (pc = "intern" /\ Len(sections') = n + 1) =>
        /\ Len(sections'[n + 1].content.words) = 1
        /\ LowerCaseOf(sections'[n + 1].content.content,
                       WordArenaName(arena', Interned(sections'[n + 1])))
        /\ \A k \in 1..n :
             SameSpelling(sections[k].content.content, sections'[n + 1].content.content)
               <=> Interned(sections[k]) = Interned(sections'[n + 1])
        /\ (\E k \in 1..n :
              SameSpelling(sections[k].content.content, sections'[n + 1].content.content))
             => arena' = arena
        /\ (\A k \in 1..n :
              ~SameSpelling(sections[k].content.content, sections'[n + 1].content.content))
             => Len(arena'.arena) = Len(arena.arena) + 1

C10_InternOnce == [][C10_Step]_vars

\* A spelling was interned, then another one, then the first one again in
\* another letter case.
C10_Witness ==
  /\ pc = "intern"
  /\ Len(sections) = 3
  /\ sections[1].content.content = "Cat"
  /\ sections[2].content.content = "you're"
  /\ sections[3].content.content = "CAT"
  /\ Interned(sections[1]) = Interned(sections[3])
  /\ Len(arena.arena) = 2

(***************************************************************************)
(* C11: the closure of the glossary is enforced at construction.  If a     *)
(* definition holds a word that is no key of the glossary being built,     *)
(* the run aborts in get_global_glossary, after all entries were inserted  *)
(* and before any section, Chapter 1 included, is rendered or registered;  *)
(* if construction returns, every word of every definition is a key.       *)
(***************************************************************************)
\* The Words that occur in a definition of the glossary.
DefinitionWords ==
  {w \in 0..(Len(arena.arena) - 1) :
     \E k \in DOMAIN glossary :
       /\ glossary[k] # << >>
       /\ \E j \in 1..Len(glossary[k][1].words) : glossary[k][1].words[j] = w}

\* The terms of the lists a glossary is built from.
Terms(input) ==
  {input.defined[i][1] : i \in 1..Len(input.defined)}
  \cup {input.undefined[i] : i \in 1..Len(input.undefined)}

C11_ClosureAtConstruction ==
  /\ (pc # "start" /\ ~(DefinitionWords \subseteq DOMAIN glossary)) =>
       /\ pc = "panicked"
       /\ sections = << >>
       /\ idg = {}
  /\ (pc = "panicked" /\ sections = << >> /\ diagnostic # "assertion failed") =>
       /\ \E w \in DefinitionWords \ DOMAIN glossary :
            diagnostic = "'" \o arena.arena[w + 1] \o "' is not defined"
       /\ \E input \in GlossaryInputs :
            {arena.arena[k + 1] : k \in DOMAIN glossary} = Terms(input)
  /\ pc \in {"chapter1", "loop", "done"} => DefinitionWords \subseteq DOMAIN glossary

\* Construction aborted on "see", a word of the first definition, with the
\* entry that follows it ("words") in the glossary and nothing rendered.
C11_Witness ==
  /\ pc = "panicked"
  /\ sections = << >>
  /\ diagnostic = "'see' is not defined"
  /\ "words" \in DOMAIN arena.mapping
  /\ arena.mapping["words"] \in DOMAIN glossary

(***************************************************************************)
(* C12: if a Glossary is rendered while a registered section holds a word  *)
(* that is no key of the global glossary, the run aborts at once with a    *)
(* diagnostic that names such a word: no Glossary section is inserted and  *)
(* no later turn runs.  (Under GlossarySpec every turn of the loop renders *)
(* a Glossary.)                                                            *)
(***************************************************************************)
\* The Words of the registered sections that are no key of the glossary.
UnknownWords ==
  {w \in 0..(Len(arena.arena) - 1) :
     /\ w \notin DOMAIN glossary
     /\ \E k \in 1..Len(sections) :
          \E j \in 1..Len(sections[k].content.words) : sections[k].content.words[j] = w}

C12_Step ==
  /\ (pc = "loop" /\ LengthTotal(sections) < word_minimum /\ UnknownWords # {}) =>
       /\ pc' = "panicked"
       /\ sections' = sections
       /\ \E w \in UnknownWords :
            diagnostic' = "'" \o arena.arena[w + 1] \o "' is not defined"
  /\ pc # "panicked"

C12_GlossaryAborts == [][C12_Step]_vars

\* A first Glossary was inserted; the second one aborted on "glossary", a
\* word of the first that is no key.
C12_Witness ==
  /\ pc = "panicked"
  /\ Len(sections) = 2
  /\ sections[2].type_ = "Glossary"
  /\ diagnostic = "'glossary' is not defined"

(***************************************************************************)
(* C13: pick_random is never called on an empty interner.  Every call      *)
(* made for a Fourword, an Afterword or a sentinel entry of a Glossary     *)
(* comes after the construction of the glossary interned at least one      *)
(* word, and the word it returns is one interned so far: the section that  *)
(* holds it is made of words the interner held before the turn.            *)
(***************************************************************************)
\* The step registers a new section of one of the kinds that call
\* pick_random.
PicksWord ==
  /\ pc = "loop"
  /\ Len(sections') = Len(sections) + 1
  /\ \/ Tail(sections') = sections /\ sections'[1].type_ = "Fourword"
     \/ /\ SubSeq(sections', 1, Len(sections)) = sections
        /\ sections'[Len(sections')].type_ \in {"Afterword", "Glossary"}

NewSection ==
  IF Tail(sections') = sections THEN sections'[1] ELSE sections'[Len(sections')]

C13_Step ==
  /\ diagnostic' # "pick_random on an empty arena"
  /\ pc' \in {"chapter1", "loop", "done"} =>
       /\ Len(arena'.arena) > 0
       /\ arena'.arena_id # << >>
       /\ DOMAIN glossary' # {}
  /\ PicksWord =>
       /\ Len(arena.arena) > 0
       /\ arena.arena_id # << >>
       /\ \A j \in 1..Len(NewSection.content.words) :
            NewSection.content.words[j] < Len(arena.arena)

C13_PickAfterConstruction == [][C13_Step]_vars

\* An Afterword, and a Glossary rendered after it with the sentinel entry
\* of "random", the word the Afterword drew.
C13_Witness ==
  /\ Len(sections) = 3
  /\ sections[2].type_ = "Afterword"
  /\ sections[3].type_ = "Glossary"
  /\ \E k \in 1..Len(BulletEntries(sections[3].content.content)) :
       BulletEntries(sections[3].content.content)[k].name = "random"

(***************************************************************************)
(* C14: the allocation of a section ID caps its redraws and treats         *)
(* exhaustion as a fatal error: once every value of the ID space is in the *)
(* used set and another ID is asked for, the allocation ends in an error   *)
(* state instead of redrawing forever.                                     *)
(***************************************************************************)
C14_ExhaustionIsFatal ==
  (pc = "intern" /\ \A id \in SectionIds : id \in idg) ~> (pc = "panicked")

(***************************************************************************)
(* C15: a glossary word whose definition is the sentinel is rendered in a  *)
(* Glossary as "See '<w>.'", w being drawn at each rendering among the     *)
(* words interned so far, so that two renderings can give two references;  *)
(* the text of the sentinel itself occurs in no section.                   *)
(***************************************************************************)
\* The bullet is the bullet of a word whose definition is the sentinel.
SentinelBullet(bullet) ==
  /\ Before(bullet, "** - ") \in DOMAIN arena.mapping
  /\ arena.mapping[Before(bullet, "** - ")] \in DOMAIN glossary
  /\ glossary[arena.mapping[Before(bullet, "** - ")]] # << >>
  /\ glossary[arena.mapping[Before(bullet, "** - ")]][1].content = RANDOM_SIGNAL

C15_Step ==
  /\ \A k \in 1..Len(sections') :
       Occurrences(sections'[k].content.content, RANDOM_SIGNAL) = {}
  /\ PushedBack("Glossary") =>
       LET bullets == Bullets(sections'[Len(sections')].content.content)
       IN  \A k \in 1..Len(bullets) :
             SentinelBullet(bullets[k]) =>
               \E i \in 1..Len(arena.arena) :
                 After(bullets[k], "** - ") = "See '" \o arena.arena[i] \o ".'"

C15_SentinelReference == [][C15_Step]_vars

\* Two Glossary sections that render the sentinel entry of "chapter", one
\* as a reference to "random" and one as a reference to "you're".
C15_Witness ==
  /\ Len(sections) = 3
  /\ sections[2].type_ = "Glossary"
  /\ sections[3].type_ = "Glossary"
  /\ \E k \in 1..Len(Bullets(sections[2].content.content)) :
       Bullets(sections[2].content.content)[k] = "chapter** - See 'random.'"
  /\ \E k \in 1..Len(Bullets(sections[3].content.content)) :
       Bullets(sections[3].content.content)[k] = "chapter** - See 'you're.'"

(***************************************************************************)
(* C16: in every state of generate from the loop on, the registry holds    *)
(* exactly one Chapter-1 section; every Dedication, Fourword and Table of  *)
(* Contents lies before it, every Glossary, List of Figures, Index and     *)
(* Afterword after it.                                                     *)
(***************************************************************************)
C16_ChapterOneInTheMiddle ==
  pc \in {"loop", "done", "panicked"} =>
    \E c \in 1..Len(sections) :
      /\ sections[c].type_ = "Chapter1"
      /\ \A k \in 1..Len(sections) :
           /\ k < c => sections[k].type_ \in {"Dedication", "Fourword", "TableOfContents"}
           /\ k > c => sections[k].type_ \in
                         {"Glossary", "ListOfFigures", "Index", "Afterword"}

\* generate returned a registry with two sections before Chapter 1, or two
\* after it.
C16_Witness ==
  /\ pc = "done"
  /\ Len(sections) = 3
  /\ sections[2].type_ # "Chapter1"

(***************************************************************************)
(* C17: once the loop has started the registry is never empty, so the      *)
(* draw of a registered section ID for a List of Figures or an Afterword   *)
(* is never made on an empty range; the ID drawn is never the ID of the    *)
(* section being rendered; and at every loop boundary the used set of the  *)
(* allocator is exactly the set of the IDs of the registered sections.     *)
(***************************************************************************)
C17_UsedIdsAreRegistered ==
  pc \in {"loop", "done"} =>
    /\ Len(sections) >= 1
    /\ idg = {sections[k].id : k \in 1..Len(sections)}
    /\ \A k \in 1..Len(sections) :
         sections[k].type_ \in {"ListOfFigures", "Afterword"} =>
           LET ids == IdsIn(sections[k].content.content)
           IN  /\ Len(ids) >= 1
               /\ ids[1] = sections[k].id
               /\ \A j \in 2..Len(ids) : ids[j] # sections[k].id

\* generate returned a registry that ends with a List of Figures whose
\* disclaimer names a section.
C17_Witness ==
  /\ pc = "done"
  /\ Len(sections) >= 2
  /\ sections[Len(sections)].type_ = "ListOfFigures"
  /\ Len(IdsIn(sections[Len(sections)].content.content)) = 2

(***************************************************************************)
(* C18: after the construction of the glossary and at every loop boundary, *)
(* every word the interner holds is a key of the global glossary           *)
(* (rendering a section interns no word outside the glossary), so a word   *)
(* that pick_random returns and that is put in a Fourword, an Afterword or *)
(* a sentinel entry is a glossary key.                                     *)
(***************************************************************************)
C18_InternerWithinGlossary ==
  pc \in {"chapter1", "loop", "done"} =>
    /\ \A w \in 0..(Len(arena.arena) - 1) : w \in DOMAIN glossary
    /\ \A name \in DOMAIN arena.mapping : arena.mapping[name] \in DOMAIN glossary
    /\ \A k \in 1..Len(sections) :
         sections[k].type_ \in {"Fourword", "Afterword", "Glossary"} =>
           \A j \in 1..Len(sections[k].content.words) :
             sections[k].content.words[j] \in DOMAIN glossary

\* generate returned a registry that begins with a Fourword holding
\* "you're", a word pick_random drew.
C18_Witness ==
  /\ pc = "done"
  /\ sections[1].type_ = "Fourword"
  /\ \E j \in 1..Len(sections[1].content.words) :
       sections[1].content.words[j] = arena.mapping["you're"]

====
